---- MODULE Spec2Model ----
(***************************************************************************)
(* Model of SmartMoneyScorer (src/综合评分V2.py): the seven dimension       *)
(* scorers, calculate_comprehensive_score and analyze_multiple_stocks.     *)
(*                                                                         *)
(* Numbers.  A float is a pair <<num, den>> with den >= 0: den > 0 is the  *)
(* rational num/den, <<1,0>> is +inf, <<-1,0>> is -inf and <<0,0>> is NaN. *)
(* Arithmetic is exact; the values drawn below are small integers, for     *)
(* which IEEE division rounds a quotient and the literal it is compared    *)
(* with to the same double, so every comparison of the code agrees with    *)
(* the exact one.  Division follows numpy (the values read from a pandas   *)
(* table are numpy scalars): x/0 is +-inf or NaN, never an exception, and  *)
(* every comparison with NaN is false.                                     *)
(***************************************************************************)
EXTENDS Integers, Sequences, FiniteSets

VARIABLES dim, inp, ret, exc,
          stock_list, idx, results, failed, pc, df_results

scorer_vars == <<dim, inp, ret, exc>>
batch_vars == <<stock_list, idx, results, failed, pc, df_results>>
vars == <<dim, inp, ret, exc, stock_list, idx, results, failed, pc, df_results>>

-----------------------------------------------------------------------------
(* Bounds of the model *)

\* largest margin balance / holding count a snapshot row carries
MaxBal == 103
\* largest net inflow, in millions
MaxFlowM == 12
\* largest total market cap, in units of 1e8 (the 亿 of the code's comments)
MaxCap == 1001
\* largest price of a bar the technical and price-volume scorers see
MaxPx == 3
\* largest volume of a bar
MaxVol == 2
\* lengths of the two flat stretches of a history (technical)
MaxOld == 10
MaxMid == 9
\* lengths of the two flat stretches and largest close (market performance)
MaxHead == 1
MaxBody == 19
MaxClose == 10
\* longest list of identifiers analyze_multiple_stocks is given
MaxStocks == 3

-----------------------------------------------------------------------------
(* Floats *)

NaN == <<0, 0>>
F(n) == <<n, 1>>
Frac(n, d) == <<n, d>>

IsNaN(x) == x[1] = 0 /\ x[2] = 0
IsFinite(x) == x[2] > 0

Sgn(n) == IF n > 0 THEN 1 ELSE IF n < 0 THEN -1 ELSE 0

\* x > y; false when either is NaN
Gt(x, y) ==
    /\ ~IsNaN(x)
    /\ ~IsNaN(y)
    /\ IF x[2] = 0 /\ y[2] = 0 THEN x[1] > y[1]
       ELSE x[1] * y[2] > y[1] * x[2]

Lt(x, y) == Gt(y, x)

Neg(x) == <<-x[1], x[2]>>

Add(x, y) ==
    IF IsNaN(x) \/ IsNaN(y) THEN NaN
    ELSE IF x[2] = 0 /\ y[2] = 0 THEN (IF x[1] = y[1] THEN x ELSE NaN)
    ELSE IF x[2] = 0 THEN x
    ELSE IF y[2] = 0 THEN y
    ELSE IF x[2] = y[2] THEN <<x[1] + y[1], x[2]>>
    ELSE <<x[1] * y[2] + y[1] * x[2], x[2] * y[2]>>

Sub(x, y) == Add(x, Neg(y))

Mul(x, y) ==
    IF IsNaN(x) \/ IsNaN(y) THEN NaN
    ELSE IF x[2] = 0 \/ y[2] = 0
         THEN (IF x[1] = 0 \/ y[1] = 0 THEN NaN ELSE <<Sgn(x[1]) * Sgn(y[1]), 0>>)
    ELSE <<x[1] * y[1], x[2] * y[2]>>

\* numpy true division: no exception on a zero divisor
Div(x, y) ==
    IF IsNaN(x) \/ IsNaN(y) THEN NaN
    ELSE IF x[2] = 0 /\ y[2] = 0 THEN NaN
    ELSE IF y[2] = 0 THEN F(0)
    ELSE IF y[1] = 0 THEN <<Sgn(x[1]), 0>>
    ELSE IF x[2] = 0 THEN <<x[1] * Sgn(y[1]), 0>>
    ELSE <<x[1] * y[2] * Sgn(y[1]), x[2] * y[1] * Sgn(y[1])>>

Floats(S) == {F(n) : n \in S} \cup {NaN}

-----------------------------------------------------------------------------
(* try / except of a scorer: a result is [exc, val] *)

Return(v) == [exc |-> FALSE, val |-> v]
Raise == [exc |-> TRUE, val |-> 0]

\* the neutral score every `except: return 50` and `if ....empty: return 50` gives
NEUTRAL == 50

\* try: body / except: return 50
TryExcept(r) == IF r.exc THEN Return(NEUTRAL) ELSE r

-----------------------------------------------------------------------------
(* Provider tables.  A snapshot table is [raises, has, rows]: the call     *)
(* raises, or returns a table whose rows (rows[1] is iloc[0]) carry the    *)
(* column the scorer reads when `has` is true.                             *)

Table(has, rows) == [raises |-> FALSE, has |-> has, rows |-> rows]
Raising == [raises |-> TRUE, has |-> FALSE, rows |-> <<>>]

Rows(S) == {<<>>} \cup {<<a>> : a \in S} \cup {<<a, b>> : a \in S, b \in S}

BalVals == Floats(-1 .. MaxBal)

SnapshotTables ==
    {Raising}
      \cup {Table(TRUE, r) : r \in Rows(BalVals)}
      \cup {Table(FALSE, r) : r \in Rows({F(1)})}

\* DataFrame.empty
Empty(t) == Len(t.rows) = 0

-----------------------------------------------------------------------------
(* calculate_funding_score *)

\* mutant: the first boundary taken as >=
FundingBucketNonStrict(margin_change) ==
    IF ~Lt(margin_change, Frac(10, 100)) /\ ~IsNaN(margin_change) THEN 90
    ELSE IF Gt(margin_change, Frac(5, 100)) THEN 75
    ELSE IF Gt(margin_change, F(0)) THEN 60
    ELSE IF Gt(margin_change, Frac(-5, 100)) THEN 40
    ELSE 20

FundingBucket(margin_change) ==
    IF Gt(margin_change, Frac(10, 100)) THEN 90
    ELSE IF Gt(margin_change, Frac(5, 100)) THEN 75
    ELSE IF Gt(margin_change, F(0)) THEN 60
    ELSE IF Gt(margin_change, Frac(-5, 100)) THEN 40
    ELSE 20

\* mutant: the guard on prev dropped
ChangeRateUnguarded(latest, prev) == Div(Sub(latest, prev), prev)

\* (latest - prev) / prev if prev > 0 else 0
ChangeRate(latest, prev) ==
    IF Gt(prev, F(0)) THEN Div(Sub(latest, prev), prev) ELSE F(0)

FundingBody(margin_data) ==
    IF margin_data.raises THEN Raise
    ELSE IF Empty(margin_data) THEN Return(NEUTRAL)
    ELSE IF ~margin_data.has THEN Raise
    ELSE LET latest_margin == margin_data.rows[1]
             prev_margin == IF Len(margin_data.rows) > 1
                            THEN margin_data.rows[2] ELSE latest_margin
         IN  Return(FundingBucket(ChangeRate(latest_margin, prev_margin)))

calculate_funding_score(margin_data) == TryExcept(FundingBody(margin_data))

-----------------------------------------------------------------------------
(* calculate_north_money_score *)

NorthBucket(hold_change) ==
    IF Gt(hold_change, Frac(20, 100)) THEN 95
    ELSE IF Gt(hold_change, Frac(10, 100)) THEN 80
    ELSE IF Gt(hold_change, Frac(5, 100)) THEN 70
    ELSE IF Gt(hold_change, F(0)) THEN 60
    ELSE IF Gt(hold_change, Frac(-5, 100)) THEN 45
    ELSE IF Gt(hold_change, Frac(-10, 100)) THEN 30
    ELSE 20

NorthBody(north_data) ==
    IF north_data.raises THEN Raise
    ELSE IF Empty(north_data) THEN Return(NEUTRAL)
    ELSE IF ~north_data.has THEN Raise
    ELSE LET latest_hold == north_data.rows[1]
             prev_hold == IF Len(north_data.rows) > 1
                          THEN north_data.rows[2] ELSE latest_hold
         IN  Return(NorthBucket(ChangeRate(latest_hold, prev_hold)))

calculate_north_money_score(north_data) == TryExcept(NorthBody(north_data))

-----------------------------------------------------------------------------
(* calculate_main_money_score.  A row of money_flow is [inflow, turnover]; *)
(* `has` says that both columns the scorer reads are there.                *)

MainHigh == 10000000
MainMid == 5000000

MainBucket(main_net_inflow) ==
    IF Gt(main_net_inflow, F(MainHigh)) THEN 90
    ELSE IF Gt(main_net_inflow, F(MainMid)) THEN 75
    ELSE IF Gt(main_net_inflow, F(0)) THEN 60
    ELSE IF Gt(main_net_inflow, F(-MainMid)) THEN 40
    ELSE 25

InflowVals ==
    Floats({k * (MainMid \div 5) + e : k \in -MaxFlowM .. MaxFlowM, e \in -1 .. 1})

FlowRows == {[inflow |-> a, turnover |-> t] : a \in InflowVals, t \in {F(3), NaN}}

FlowTables ==
    {Raising}
      \cup {Table(h, <<>>) : h \in BOOLEAN}
      \cup {Table(h, <<r>>) : h \in BOOLEAN, r \in FlowRows}

MainBody(money_flow) ==
    IF money_flow.raises THEN Raise
    ELSE IF Empty(money_flow) THEN Return(NEUTRAL)
    ELSE IF ~money_flow.has THEN Raise
    ELSE LET main_net_inflow == money_flow.rows[1].inflow
         IN  Return(MainBucket(main_net_inflow))

calculate_main_money_score(money_flow) == TryExcept(MainBody(money_flow))

-----------------------------------------------------------------------------
(* calculate_liquidity_score.  stock_info is a mapping from field name to  *)
(* value: rows[1] is the total market cap (in 1e8) when `has` is true;     *)
(* stock_info.get('总市值', 0) is 0 when the field is missing.             *)

SmallCap == 50
MidCap == 200
LargeCap == 1000

LiquidityBucket(market_cap) ==
    IF Lt(market_cap, F(SmallCap)) THEN 70
    ELSE IF Lt(market_cap, F(MidCap)) THEN 80
    ELSE IF Lt(market_cap, F(LargeCap)) THEN 65
    ELSE 50

CapVals == Floats(0 .. MaxCap)

InfoTables ==
    {Raising, Table(FALSE, <<>>)}
      \cup {Table(TRUE, <<c>>) : c \in CapVals}
      \cup {Table(FALSE, <<F(1)>>)}

\* stock_info.get('总市值', 0)
GetCap(stock_info) == IF stock_info.has THEN stock_info.rows[1] ELSE F(0)

\* mutant: the test of stock_info.empty left out
LiquidityBodyNoEmptyTest(stock_info) ==
    IF stock_info.raises THEN Raise
    ELSE Return(LiquidityBucket(GetCap(stock_info)))

LiquidityBody(stock_info) ==
    IF stock_info.raises THEN Raise
    ELSE IF Empty(stock_info) THEN Return(NEUTRAL)
    ELSE Return(LiquidityBucket(GetCap(stock_info)))

calculate_liquidity_score(stock_info) == TryExcept(LiquidityBody(stock_info))

-----------------------------------------------------------------------------
(* Daily bars.  ak.stock_zh_a_hist gives a table whose rows are bars       *)
(* [close, high, low, volume], oldest first: rows[Len] is iloc[-1].  The   *)
(* histories drawn are two flat stretches followed by up to two free bars, *)
(* each bar with low <= close <= high.                                     *)

Bar(c, h, l, v) == [close |-> c, high |-> h, low |-> l, volume |-> v]

Flat(n, p) == [i \in 1 .. n |-> Bar(p, p, p, 1)]

Hist(n1, p1, n2, p2, tail) == Flat(n1, p1) \o Flat(n2, p2) \o tail

\* the free bars a history may end with
Tails(PrevBars, LastBars) ==
    {<<>>} \cup {<<b>> : b \in LastBars} \cup {<<a, b>> : a \in PrevBars, b \in LastBars}

RECURSIVE SumLast(_, _)
\* the sum of the last w entries of a sequence of integers (w <= Len)
SumLast(seq, w) ==
    IF w = 0 THEN 0 ELSE seq[Len(seq) - w + 1] + SumLast(seq, w - 1)

RECURSIVE MaxLast(_, _)
MaxLast(seq, w) ==
    IF w = 1 THEN seq[Len(seq)]
    ELSE LET m == MaxLast(seq, w - 1)
             x == seq[Len(seq) - w + 1]
         IN  IF x > m THEN x ELSE m

RECURSIVE MinLast(_, _)
MinLast(seq, w) ==
    IF w = 1 THEN seq[Len(seq)]
    ELSE LET m == MinLast(seq, w - 1)
             x == seq[Len(seq) - w + 1]
         IN  IF x < m THEN x ELSE m

Column(rows, f) == [i \in 1 .. Len(rows) |-> rows[i][f]]
Squares(seq) == [i \in 1 .. Len(seq) |-> seq[i] * seq[i]]
Least(a, b) == IF a < b THEN a ELSE b

\* series.rolling(window = w).mean().iloc[-1]: NaN until w values are there
RollingMean(seq, w) ==
    IF Len(seq) < w THEN NaN ELSE Frac(SumLast(seq, w), w)

-----------------------------------------------------------------------------
(* calculate_technical_score *)

BBWindow == 20
MA5Window == 5
MA10Window == 10
SarWindow == 5

(* With m the 20-bar mean and s the 20-bar sample deviation of the close,  *)
(* Upper - Lower = 4s and bb_position = (c - m + 2s) / 4s.  For n = 20,    *)
(* S the sum and Q the sum of squares of the window: x = n*c - S is        *)
(* n(c - m) and D = n*Q - S*S is n(n-1)s^2.  So Upper - Lower > 0 iff      *)
(* D > 0, and bb_position > a/b iff b*x > k*n*s with k = 4a - 2b, which is *)
(* decided on the squares: (n-1) b^2 x^2 against k^2 n D.                  *)
BandX(closes) == BBWindow * closes[Len(closes)] - SumLast(closes, BBWindow)
BandD(closes) ==
    BBWindow * SumLast(Squares(closes), BBWindow)
      - SumLast(closes, BBWindow) * SumLast(closes, BBWindow)

\* (upper - lower) > 0: false when the window is short (NaN) or flat
BandWidthPositive(closes) == Len(closes) >= BBWindow /\ BandD(closes) > 0

\* bb_position > a/b, for a band of positive width
PositionGt(closes, a, b) ==
    LET x == BandX(closes)
        D == BandD(closes)
        k == 4 * a - 2 * b
        lhs == (BBWindow - 1) * b * b * x * x
        rhs == k * k * BBWindow * D
    IN  IF k >= 0 THEN x > 0 /\ lhs > rhs
        ELSE x >= 0 \/ lhs < rhs

BBScore(closes) ==
    IF BandWidthPositive(closes)
    THEN IF PositionGt(closes, 7, 10) THEN 30
         ELSE IF PositionGt(closes, 3, 10) THEN 70
         ELSE 40
    \* bb_position = 0.5
    ELSE 70

MAScore(closes) ==
    LET ma5 == RollingMean(closes, MA5Window)
        ma10 == RollingMean(closes, MA10Window)
        ma20 == RollingMean(closes, BBWindow)
    IN  IF Gt(ma5, ma10) /\ Gt(ma10, ma20) THEN 90
        ELSE IF Gt(ma5, ma10) THEN 70
        ELSE IF Gt(ma5, ma20) THEN 60
        ELSE 40

\* stock_data['最高'].tail(5).max(): the last five bars, the latest among them
RecentHigh(rows) == MaxLast(Column(rows, "high"), Least(SarWindow, Len(rows)))
RecentLow(rows) == MinLast(Column(rows, "low"), Least(SarWindow, Len(rows)))

SarScore(rows) ==
    LET latest_close == rows[Len(rows)].close
    IN  IF latest_close > RecentHigh(rows) THEN 80
        ELSE IF latest_close < RecentLow(rows) THEN 30
        ELSE 60

\* mutant: the weights 3, 4, 3 in place of 0.3, 0.4, 0.3
BlendUnscaled(bb_score, ma_score, sar_score) ==
    3 * bb_score + 4 * ma_score + 3 * sar_score

\* bb_score * 0.3 + ma_score * 0.4 + sar_score * 0.3: the three scores are
\* multiples of 10, and the blend is a whole number, in floats too
Blend(bb_score, ma_score, sar_score) ==
    (3 * bb_score + 4 * ma_score + 3 * sar_score) \div 10

TechnicalBody(stock_data) ==
    IF stock_data.raises THEN Raise
    ELSE IF Empty(stock_data) THEN Return(NEUTRAL)
    ELSE IF ~stock_data.has THEN Raise
    ELSE LET closes == Column(stock_data.rows, "close")
         IN  Return(Blend(BBScore(closes), MAScore(closes), SarScore(stock_data.rows)))

calculate_technical_score(stock_data) == TryExcept(TechnicalBody(stock_data))

-----------------------------------------------------------------------------
(* calculate_price_volume_score *)

PVBucket(price_change, volume_change) ==
    IF \/ Gt(price_change, F(0)) /\ Gt(volume_change, F(0))
       \/ Lt(price_change, F(0)) /\ Lt(volume_change, F(0))
    THEN 80
    ELSE IF \/ Gt(price_change, F(0)) /\ Lt(volume_change, F(0))
            \/ Lt(price_change, F(0)) /\ Gt(volume_change, F(0))
    THEN 40
    ELSE 60

\* (x.iloc[-1] - x.iloc[-2]) / x.iloc[-2]
Change(last, prev) == Div(Sub(F(last), F(prev)), F(prev))

PriceVolumeBody(stock_data) ==
    IF stock_data.raises THEN Raise
    ELSE IF Empty(stock_data) THEN Return(NEUTRAL)
    ELSE IF ~stock_data.has THEN Raise
    \* iloc[-2] of a single row: IndexError
    ELSE IF Len(stock_data.rows) < 2 THEN Raise
    ELSE LET n == Len(stock_data.rows)
             last == stock_data.rows[n]
             prev == stock_data.rows[n - 1]
         IN  Return(PVBucket(Change(last.close, prev.close),
                             Change(last.volume, prev.volume)))

calculate_price_volume_score(stock_data) == TryExcept(PriceVolumeBody(stock_data))

-----------------------------------------------------------------------------
(* calculate_market_performance_score *)

Lookback == 20

PerformanceBucket(return_20d) ==
    IF Gt(return_20d, Frac(20, 100)) THEN 90
    ELSE IF Gt(return_20d, Frac(10, 100)) THEN 75
    ELSE IF Gt(return_20d, F(0)) THEN 65
    ELSE IF Gt(return_20d, Frac(-10, 100)) THEN 45
    ELSE 30

\* stock_data.iloc[-20] if len(stock_data) >= 20 else stock_data.iloc[0]
ReferenceBar(rows) ==
    IF Len(rows) >= Lookback THEN rows[Len(rows) - Lookback + 1] ELSE rows[1]

PerformanceBody(stock_data) ==
    IF stock_data.raises THEN Raise
    ELSE IF Empty(stock_data) THEN Return(NEUTRAL)
    ELSE IF ~stock_data.has THEN Raise
    ELSE LET current_price == stock_data.rows[Len(stock_data.rows)].close
             price_20_days_ago == ReferenceBar(stock_data.rows).close
         IN  Return(PerformanceBucket(Change(current_price, price_20_days_ago)))

calculate_market_performance_score(stock_data) == TryExcept(PerformanceBody(stock_data))

-----------------------------------------------------------------------------
(* The histories each bar scorer is called with *)

Prices == 0 .. MaxPx
ValidBars(V) ==
    {Bar(c, h, l, v) : c \in Prices, h \in Prices, l \in Prices, v \in V}
FlatBars(P, V) == {Bar(p, p, p, v) : p \in P, v \in V}

HistTables(rows_set) ==
    {Raising, Table(TRUE, <<>>), Table(FALSE, Flat(2, 1))}
      \cup {Table(TRUE, r) : r \in rows_set}

TechnicalRows ==
    {Hist(n1, p1, n2, p2, t) :
        n1 \in {0, MaxOld}, p1 \in Prices, n2 \in 0 .. MaxMid, p2 \in Prices,
        t \in Tails(FlatBars(Prices, {1}),
                    {b \in ValidBars({1}) : b.low <= b.close /\ b.close <= b.high})}

PriceVolumeRows ==
    {Hist(0, 0, n2, 1, t) :
        n2 \in 0 .. 1,
        t \in Tails(FlatBars(Prices, 0 .. MaxVol), FlatBars(Prices, 0 .. MaxVol))}

PerformanceRows ==
    {Hist(n1, p1, n2, p2, <<Bar(c, c, c, 1)>>) :
        n1 \in 0 .. MaxHead, p1 \in 0 .. MaxClose,
        n2 \in 0 .. MaxBody, p2 \in 0 .. MaxClose, c \in 0 .. MaxClose}

-----------------------------------------------------------------------------
(* A call of one scorer: dim names it, inp is what the provider gave,      *)
(* ret the value returned and exc whether an exception reached the caller. *)
(* The scorers keep no state: one behaviour is one call.                   *)

Fresh == dim = "none" /\ pc = "idle"

Call(d, data, r) ==
    /\ dim' = d
    /\ inp' = data
    /\ ret' = r.val
    /\ exc' = r.exc
    /\ UNCHANGED batch_vars

CallFunding ==
    /\ Fresh
    /\ \E t \in SnapshotTables : Call("funding", t, calculate_funding_score(t))

CallNorth ==
    /\ Fresh
    /\ \E t \in SnapshotTables : Call("north_money", t, calculate_north_money_score(t))

CallMain ==
    /\ Fresh
    /\ \E t \in FlowTables : Call("main_money", t, calculate_main_money_score(t))

CallTechnical ==
    /\ Fresh
    /\ \E t \in HistTables(TechnicalRows) :
          Call("technical", t, calculate_technical_score(t))

CallPriceVolume ==
    /\ Fresh
    /\ \E t \in HistTables(PriceVolumeRows) :
          Call("price_volume", t, calculate_price_volume_score(t))

CallPerformance ==
    /\ Fresh
    /\ \E t \in HistTables(PerformanceRows) :
          Call("market_performance", t, calculate_market_performance_score(t))

CallLiquidity ==
    /\ Fresh
    /\ \E t \in InfoTables : Call("liquidity", t, calculate_liquidity_score(t))

Init ==
    /\ dim = "none"
    /\ inp = Raising
    /\ ret = 0
    /\ exc = FALSE
    /\ stock_list = <<>>
    /\ idx = 0
    /\ results = <<>>
    /\ failed = {}
    /\ pc = "idle"
    /\ df_results = <<>>

Next ==
    \/ CallFunding
    \/ CallNorth
    \/ CallMain
    \/ CallTechnical
    \/ CallPriceVolume
    \/ CallPerformance
    \/ CallLiquidity

Spec == Init /\ [][Next]_vars

-----------------------------------------------------------------------------
(* Properties of the scorers (specification Spec) *)

Called == dim # "none"
\* the provider returned a table
Returned == Called /\ ~inp.raises
\* ... with rows that carry the columns the scorer reads
Readable == Returned /\ ~Empty(inp) /\ inp.has
LastRow == inp.rows[Len(inp.rows)]
PrevRow == inp.rows[Len(inp.rows) - 1]

\* C1: whatever the provider does (raises, empty table, one row, zero previous
\* value, missing field, fewer than 20 bars, NaN ratio), each of the seven
\* scorers returns a number in [0, 100]
C1_ScoreInRange == Called => (~exc /\ ret >= 0 /\ ret <= 100)

\* a NaN ratio: the last two closes are both 0, and the price-volume scorer returned
C1_Witness ==
    /\ dim = "price_volume"
    /\ Readable
    /\ Len(inp.rows) >= 2
    /\ LastRow.close = 0
    /\ PrevRow.close = 0
    /\ ret = 60

\* C2: a scorer whose provider returns an empty table returns exactly 50
C2_EmptyGivesNeutral == (Returned /\ Empty(inp)) => (~exc /\ ret = 50)

C2_Witness == dim = "liquidity" /\ Returned /\ Empty(inp) /\ ret = 50

\* the failures C3 lists
ProviderRaises == Called /\ inp.raises
ColumnMissing == dim # "liquidity" /\ Returned /\ ~Empty(inp) /\ ~inp.has
SingleBar == dim = "price_volume" /\ Readable /\ Len(inp.rows) = 1
CapMissing == dim = "liquidity" /\ Returned /\ ~Empty(inp) /\ ~inp.has
ZeroPrevious ==
    /\ dim \in {"funding", "north_money"}
    /\ Readable
    /\ Len(inp.rows) = 2
    /\ inp.rows[2] = F(0)
ZeroPrevBar ==
    /\ dim = "price_volume"
    /\ Readable
    /\ Len(inp.rows) >= 2
    /\ (PrevRow.close = 0 \/ PrevRow.volume = 0)
ZeroReference ==
    /\ dim = "market_performance"
    /\ Readable
    /\ ReferenceBar(inp.rows).close = 0

\* C3 as claimed: every failure (provider raising, missing field or row,
\* division by a zero previous value) is swallowed and gives exactly 50
C3_FailureGivesNeutral ==
    (ProviderRaises \/ ColumnMissing \/ SingleBar \/ CapMissing
        \/ ZeroPrevious \/ ZeroPrevBar \/ ZeroReference)
      => (~exc /\ ret = 50)

\* the price-volume score by the signs of the two differences
SignScore(dp, dv) ==
    IF (dp > 0 /\ dv > 0) \/ (dp < 0 /\ dv < 0) THEN 80
    ELSE IF (dp > 0 /\ dv < 0) \/ (dp < 0 /\ dv > 0) THEN 40
    ELSE 60

\* C3 as amended: no failure reaches the caller; the provider raising, a
\* missing column and a single bar for price-volume give 50; a zero previous
\* balance or holding is scored as no change (40 for funding, 45 for
\* north-money); a missing market-cap field is scored as cap 0 (70); a zero
\* previous close or volume, or a zero reference close, gives an infinite or
\* NaN ratio that is bucketed like any other
C3_FailureHandling ==
    /\ Called => ~exc
    /\ (ProviderRaises \/ ColumnMissing \/ SingleBar) => ret = 50
    /\ CapMissing => ret = 70
    /\ (ZeroPrevious /\ dim = "funding") => ret = 40
    /\ (ZeroPrevious /\ dim = "north_money") => ret = 45
    /\ ZeroPrevBar => ret = SignScore(LastRow.close - PrevRow.close,
                                      LastRow.volume - PrevRow.volume)
    /\ ZeroReference => ret = (IF LastRow.close > 0 THEN 90 ELSE 30)

\* the previous margin balance is 0 and the latest is not
C3_Witness ==
    /\ dim = "funding"
    /\ ZeroPrevious
    /\ inp.rows[1] = F(5)
    /\ ret = 40

\* the bucket tables of the specification, on integers: l latest, p previous > 0
FundingTable(l, p) ==
    IF 10 * (l - p) > p THEN 90
    ELSE IF 20 * (l - p) > p THEN 75
    ELSE IF l - p > 0 THEN 60
    ELSE IF 20 * (l - p) > -p THEN 40
    ELSE 20

NorthTable(l, p) ==
    IF 5 * (l - p) > p THEN 95
    ELSE IF 10 * (l - p) > p THEN 80
    ELSE IF 20 * (l - p) > p THEN 70
    ELSE IF l - p > 0 THEN 60
    ELSE IF 20 * (l - p) > -p THEN 45
    ELSE IF 10 * (l - p) > -p THEN 30
    ELSE 20

MainTable(n) ==
    IF n > 10000000 THEN 90
    ELSE IF n > 5000000 THEN 75
    ELSE IF n > 0 THEN 60
    ELSE IF n > -5000000 THEN 40
    ELSE 25

\* c in units of 1e8
LiquidityTable(c) ==
    IF c < 50 THEN 70
    ELSE IF c < 200 THEN 80
    ELSE IF c < 1000 THEN 65
    ELSE 50

TwoRows ==
    /\ Readable
    /\ Len(inp.rows) = 2
    /\ IsFinite(inp.rows[1])
    /\ IsFinite(inp.rows[2])
    /\ inp.rows[2][1] > 0

PriorBars(rows) == SubSeq(rows, 1, Len(rows) - 1)
PriorBreakout(rows) ==
    IF Len(rows) < 2 THEN 60
    ELSE IF rows[Len(rows)].close > RecentHigh(PriorBars(rows)) THEN 80
    ELSE IF rows[Len(rows)].close < RecentLow(PriorBars(rows)) THEN 30
    ELSE 60

\* C8 as claimed: the technical score is 0.3 band + 0.4 ma + 0.3 breakout, the
\* breakout taken against the prior 5-day high and low, so that a close on the
\* lower band with MA5 > MA10 > MA20 above the prior high scores 72
C8_TechnicalBlend ==
    (dim = "technical" /\ Readable)
      => ret = (3 * BBScore(Column(inp.rows, "close"))
                + 4 * MAScore(Column(inp.rows, "close"))
                + 3 * PriorBreakout(inp.rows)) \div 10

\* C9 as claimed: with 21 bars or more the market-performance scorer buckets
\* the return over 20 trading days, from the bar 20 places before the last
C9_TwentyDayReturn ==
    (dim = "market_performance" /\ Readable /\ Len(inp.rows) >= 21
        /\ \A i \in 1 .. Len(inp.rows) : inp.rows[i].close > 0)
      => LET c == LastRow.close
             r == inp.rows[Len(inp.rows) - 20].close
         IN  ret = (IF 5 * (c - r) > r THEN 90
                    ELSE IF 10 * (c - r) > r THEN 75
                    ELSE IF c - r > 0 THEN 65
                    ELSE IF 10 * (c - r) > -r THEN 45
                    ELSE 30)

-----------------------------------------------------------------------------
(* calculate_comprehensive_score.  provider is what ak returns for one     *)
(* stock: margin, north, flow and info feed one scorer each, hist (the     *)
(* daily bars) feeds the technical, price-volume and performance scorers.  *)

Dimensions ==
    <<"funding_score", "north_money_score", "main_money_score", "technical_score",
      "price_volume_score", "market_performance_score", "liquidity_score">>

\* mutant: the weights of price_volume_score and technical_score exchanged
WeightExchanged(dimension) ==
    CASE dimension = "funding_score" -> Frac(15, 100)
      [] dimension = "north_money_score" -> Frac(20, 100)
      [] dimension = "main_money_score" -> Frac(15, 100)
      [] dimension = "price_volume_score" -> Frac(20, 100)
      [] dimension = "technical_score" -> Frac(10, 100)
      [] dimension = "market_performance_score" -> Frac(10, 100)
      [] dimension = "liquidity_score" -> Frac(10, 100)

\* self.weights
Weight(dimension) ==
    CASE dimension = "funding_score" -> Frac(15, 100)
      [] dimension = "north_money_score" -> Frac(20, 100)
      [] dimension = "main_money_score" -> Frac(15, 100)
      [] dimension = "price_volume_score" -> Frac(10, 100)
      [] dimension = "technical_score" -> Frac(20, 100)
      [] dimension = "market_performance_score" -> Frac(10, 100)
      [] dimension = "liquidity_score" -> Frac(10, 100)

Scores(provider) ==
    [funding_score |-> calculate_funding_score(provider.margin).val,
     north_money_score |-> calculate_north_money_score(provider.north).val,
     main_money_score |-> calculate_main_money_score(provider.flow).val,
     technical_score |-> calculate_technical_score(provider.hist).val,
     price_volume_score |-> calculate_price_volume_score(provider.hist).val,
     market_performance_score |-> calculate_market_performance_score(provider.hist).val,
     liquidity_score |-> calculate_liquidity_score(provider.info).val]

RECURSIVE TotalScore(_, _)
\* for dimension, score in scores.items(): total_score += score * self.weights[dimension]
TotalScore(scores, k) ==
    IF k = 0 THEN F(0)
    ELSE Add(TotalScore(scores, k - 1),
             Mul(F(scores[Dimensions[k]]), Weight(Dimensions[k])))

calculate_comprehensive_score(stock_code, provider) ==
    LET scores == Scores(provider)
    IN  [funding_score |-> scores.funding_score,
         north_money_score |-> scores.north_money_score,
         main_money_score |-> scores.main_money_score,
         technical_score |-> scores.technical_score,
         price_volume_score |-> scores.price_volume_score,
         market_performance_score |-> scores.market_performance_score,
         liquidity_score |-> scores.liquidity_score,
         total_score |-> TotalScore(scores, Len(Dimensions)),
         stock_code |-> stock_code]

\* a rising and a falling history of 21 bars
Rising == Hist(10, 1, 9, 2, <<Bar(2, 2, 2, 1), Bar(3, 3, 2, 2)>>)
Falling == Hist(10, 3, 9, 2, <<Bar(2, 2, 2, 1), Bar(1, 2, 1, 2)>>)

\* what the provider may hold for a stock of the batch
Providers ==
    [margin : {Raising, Table(TRUE, <<F(28), F(25)>>)},
     north : {Table(TRUE, <<>>), Table(TRUE, <<F(23), F(25)>>)},
     flow : {Table(TRUE, <<[inflow |-> F(MainHigh + 1), turnover |-> F(3)]>>)},
     hist : {Table(TRUE, Rising), Table(TRUE, Falling)},
     info : {Table(FALSE, <<F(1)>>), Table(TRUE, <<F(MidCap)>>)}]

-----------------------------------------------------------------------------
(* analyze_multiple_stocks *)

Codes == <<"000858", "600519", "000333", "601318", "600036">>

Range(seq) == {seq[i] : i \in 1 .. Len(seq)}

StockLists == {SubSeq(Codes, 1, n) : n \in 0 .. Least(MaxStocks, Len(Codes))}

\* mutant: ascending = True
InOrderAscending(a, b) == ~Gt(a.total_score, b.total_score)

\* sort_values('total_score', ascending = False): a may stand before b
InOrder(a, b) == ~Lt(a.total_score, b.total_score)

Permutations(n) ==
    {p \in [1 .. n -> 1 .. n] : \A i \in 1 .. n : \A j \in 1 .. n : p[i] = p[j] => i = j}

(* sort_values sorts with kind = 'quicksort', which is not a stable sort:  *)
(* the order it leaves among rows of equal total_score is not specified,   *)
(* so every ordering of the rows that is sorted is a possible outcome.     *)
SortValues(rows) ==
    {[i \in 1 .. Len(rows) |-> rows[p[i]]] : p \in
        {q \in Permutations(Len(rows)) :
            \A i \in 1 .. Len(rows) - 1 : InOrder(rows[q[i]], rows[q[i + 1]])}}

\* the records calculate_comprehensive_score can return for a stock
ScoreResults ==
    [stock_code \in Range(Codes) |->
        {calculate_comprehensive_score(stock_code, provider) : provider \in Providers}]

\* one turn of the loop whose try succeeds
Analyze ==
    /\ pc = "loop"
    /\ idx < Len(stock_list)
    /\ \E score_result \in ScoreResults[stock_list[idx + 1]] :
          results' = Append(results, score_result)
    /\ idx' = idx + 1
    /\ UNCHANGED <<stock_list, failed, pc, df_results, scorer_vars>>

\* one turn of the loop whose try raises: the except prints and continues
AnalyzeFails ==
    /\ pc = "loop"
    /\ idx < Len(stock_list)
    /\ failed' = failed \cup {stock_list[idx + 1]}
    /\ idx' = idx + 1
    /\ UNCHANGED <<stock_list, results, pc, df_results, scorer_vars>>

\* pd.DataFrame(results).sort_values('total_score', ascending = False): a frame
\* built from no record has no column total_score, and sort_values raises KeyError
SortResults ==
    /\ pc = "loop"
    /\ idx = Len(stock_list)
    /\ IF results = <<>>
       THEN pc' = "raised" /\ UNCHANGED df_results
       ELSE pc' = "done" /\ df_results' \in SortValues(results)
    /\ UNCHANGED <<stock_list, idx, results, failed, scorer_vars>>

InitBatch ==
    /\ dim = "none"
    /\ inp = Raising
    /\ ret = 0
    /\ exc = FALSE
    /\ stock_list \in StockLists
    /\ idx = 0
    /\ results = <<>>
    /\ failed = {}
    /\ pc = "loop"
    /\ df_results = <<>>

NextBatch ==
    \/ Analyze
    \/ AnalyzeFails
    \/ SortResults

SpecBatch == InitBatch /\ [][NextBatch]_vars

-----------------------------------------------------------------------------
(* Properties of the batch (specification SpecBatch) *)

\* x = y as numbers
Same(x, y) == IsFinite(x) /\ IsFinite(y) /\ x[1] * y[2] = y[1] * x[2]

RECURSIVE WeightSum(_)
WeightSum(k) == IF k = 0 THEN F(0) ELSE Add(WeightSum(k - 1), Weight(Dimensions[k]))

\* C4: the total_score of a record is the sum over the seven dimensions of
\* weight * score, the weights sum to 1, and the total lies in [0, 100]
C4_WeightedTotal ==
    /\ Same(WeightSum(Len(Dimensions)), F(1))
    /\ \A i \in 1 .. Len(results) :
          LET r == results[i]
          IN  /\ Same(r.total_score,
                      Frac(15 * r.funding_score + 20 * r.north_money_score
                             + 15 * r.main_money_score + 20 * r.technical_score
                             + 10 * r.price_volume_score
                             + 10 * r.market_performance_score
                             + 10 * r.liquidity_score, 100))
              /\ ~Lt(r.total_score, F(0))
              /\ ~Gt(r.total_score, F(100))

\* a record whose scores are not all neutral
C4_Witness ==
    /\ Len(results) >= 1
    /\ results[1].funding_score = 90
    /\ results[1].north_money_score = 30
    /\ results[1].technical_score # results[1].price_volume_score

Sorted(rows) ==
    \A i \in 1 .. Len(rows) - 1 : ~Lt(rows[i].total_score, rows[i + 1].total_score)

\* the place of a record's identifier in the input list
Place(r) == CHOOSE k \in 1 .. Len(stock_list) : stock_list[k] = r.stock_code

Stable(rows) ==
    \A i \in 1 .. Len(rows) : \A j \in 1 .. Len(rows) :
        (i < j /\ Same(rows[i].total_score, rows[j].total_score))
          => Place(rows[i]) < Place(rows[j])

Finished == pc \in {"done", "raised"}

\* C6 as claimed: when scoring some identifier fails the batch does not raise,
\* and the result holds exactly the records of the identifiers that did not
\* fail, also when every identifier fails
C6_FailuresSkipped ==
    (Finished /\ failed # {}) =>
      /\ pc = "done"
      /\ {df_results[i].stock_code : i \in 1 .. Len(df_results)}
            = Range(stock_list) \ failed
      /\ Len(df_results) = Len(stock_list) - Cardinality(failed)

\* C10 as claimed: analyze_multiple_stocks never raises, and returns an empty
\* ranking for the empty list
C10_NeverRaises ==
    /\ pc # "raised"
    /\ (Finished /\ stock_list = <<>>) => (pc = "done" /\ df_results = <<>>)

====
